---- MODULE Spec2Model ----
(***************************************************************************)
(* Model of the per-connection turn orchestration of server.py: the audio  *)
(* segmenter (AudioProcessor.add_audio), the receive loop of               *)
(* websocket_handler, run_llm_pipeline and the pipeline task _worker.      *)
(*                                                                         *)
(* Scheduling is asyncio's: the receive loop and a pipeline task are       *)
(* coroutines on one event loop, so the code between two awaits that can   *)
(* suspend is one atomic step.  The awaits that can suspend are            *)
(* websocket.receive(), websocket.send_json() and `await llm_task`.        *)
(* transcribe_audio, generate_llm_response and synthesize_speech contain   *)
(* no await, so a call to them runs inside the step that makes it.  A      *)
(* send_json puts its message on the wire and then may suspend its caller. *)
(***************************************************************************)
EXTENDS Naturals, Sequences, FiniteSets

(***************************************************************************)
(* Bounds of the model.                                                    *)
(***************************************************************************)
\* inbound messages received in one session
MaxRecv == 2
\* fragments the generation collaborator yields in one turn
MaxFrags == 2

(***************************************************************************)
(* AudioProcessor.__init__                                                 *)
(***************************************************************************)
sample_rate == 16000
frame_duration_ms == 30
frame_size == (sample_rate * frame_duration_ms) \div 1000

(***************************************************************************)
(* Audio.  A byte is abstracted to its kind: "v" (voiced) or "q" (quiet).  *)
(* A bytes value is the run-length encoding of its kinds, a sequence of    *)
(* runs [k, n] with n > 0 and adjacent runs of different kinds, so that    *)
(* two values are equal exactly when they are the same bytes.              *)
(***************************************************************************)
Kinds == {"v", "q"}
\* chunk sizes a client sends: half a frame, and one second of audio less
\* and plus half a frame
ChunkLens == {frame_size, sample_rate * 2 - frame_size,
              sample_rate * 2 + frame_size}
Chunks == [k : Kinds, n : ChunkLens]

RECURSIVE BufLen(_)
BufLen(b) == IF b = <<>> THEN 0 ELSE Head(b).n + BufLen(Tail(b))

\* bytearray.extend
Extend(b, c) ==
    IF b # <<>> /\ b[Len(b)].k = c.k
    THEN [b EXCEPT ![Len(b)] = [k |-> c.k, n |-> b[Len(b)].n + c.n]]
    ELSE Append(b, c)

RECURSIVE KindAt(_, _)
\* the kind of byte number off (from 0) of b, off < BufLen(b)
KindAt(b, off) ==
    IF off < Head(b).n THEN Head(b).k ELSE KindAt(Tail(b), off - Head(b).n)

\* buffer[:frame_size * 2], given as the kinds of its two halves (every
\* chunk is at least half a frame long, so each half is of one kind)
LeadingFrame(b) == <<KindAt(b, 0), KindAt(b, frame_size)>>

Frames == Kinds \X Kinds
\* The VAD oracle is a function of the frame: a frame of voiced bytes is
\* "speech", a frame of quiet bytes is "silence"; what it says of a mixed
\* frame is settled the first time it is asked ("unasked" until then).
VadInit ==
    [f \in Frames |-> IF f = <<"v", "v">> THEN "speech"
                      ELSE IF f = <<"q", "q">> THEN "silence"
                      ELSE "unasked"]

\* the oracle is_speech once it has been asked about frame f, answer being
\* what it says if f had not been asked about before
Asked(is_speech, f, answer) ==
    IF is_speech[f] = "unasked" THEN [is_speech EXCEPT ![f] = answer]
    ELSE is_speech

\* what a call of add_audio returns for "no utterance" (Python's None)
None == <<>>

\* add_audio without the test of the buffer's length on line 121
add_audio_NoThreshold(buf, audio_bytes, is_speech, raises, answer) ==
    LET b == Extend(buf, audio_bytes) IN
    IF BufLen(b) < frame_size * 2
    THEN [buffer |-> b, result |-> None, vad |-> is_speech, error |-> FALSE]
    ELSE IF raises
    THEN [buffer |-> b, result |-> None, vad |-> is_speech, error |-> TRUE]
    ELSE LET oracle == Asked(is_speech, LeadingFrame(b), answer) IN
         IF oracle[LeadingFrame(b)] # "speech"
         THEN [buffer |-> <<>>, result |-> b, vad |-> oracle, error |-> FALSE]
         ELSE [buffer |-> b, result |-> None, vad |-> oracle, error |-> FALSE]

\* add_audio without the test of is_speech on line 121
add_audio_NoVad(buf, audio_bytes, is_speech, raises, answer) ==
    LET b == Extend(buf, audio_bytes) IN
    IF BufLen(b) < frame_size * 2
    THEN [buffer |-> b, result |-> None, vad |-> is_speech, error |-> FALSE]
    ELSE IF raises
    THEN [buffer |-> b, result |-> None, vad |-> is_speech, error |-> TRUE]
    ELSE LET oracle == Asked(is_speech, LeadingFrame(b), answer) IN
         IF BufLen(b) > sample_rate * 2
         THEN [buffer |-> <<>>, result |-> b, vad |-> oracle, error |-> FALSE]
         ELSE [buffer |-> b, result |-> None, vad |-> oracle, error |-> FALSE]

\* AudioProcessor.add_audio: the buffer after the call, the value returned,
\* the oracle after the call and whether "VAD error" was logged.  raises:
\* self.vad.is_speech raises if called in this call; answer: what the oracle
\* says of a frame it is asked about first.
add_audio(buf, audio_bytes, is_speech, raises, answer) ==
    LET b == Extend(buf, audio_bytes) IN
    IF BufLen(b) < frame_size * 2
    THEN [buffer |-> b, result |-> None, vad |-> is_speech, error |-> FALSE]
    ELSE IF raises
    THEN [buffer |-> b, result |-> None, vad |-> is_speech, error |-> TRUE]
    ELSE LET oracle == Asked(is_speech, LeadingFrame(b), answer) IN
         IF oracle[LeadingFrame(b)] # "speech" /\ BufLen(b) > sample_rate * 2
         THEN [buffer |-> <<>>, result |-> b, vad |-> oracle, error |-> FALSE]
         ELSE [buffer |-> b, result |-> None, vad |-> oracle, error |-> FALSE]

(***************************************************************************)
(* Text.  A string is the sequence of its characters.                      *)
(***************************************************************************)
Space == " "
LetterH == "h"

RECURSIVE LStrip(_)
LStrip(s) == IF s # <<>> /\ Head(s) = Space THEN LStrip(Tail(s)) ELSE s

RECURSIVE RStrip(_)
RStrip(s) ==
    IF s # <<>> /\ s[Len(s)] = Space THEN RStrip(SubSeq(s, 1, Len(s) - 1)) ELSE s

\* str.strip
Strip(s) == RStrip(LStrip(s))

RECURSIVE Join(_)
\* "".join(list of strings)
Join(l) == IF l = <<>> THEN <<>> ELSE Head(l) \o Join(Tail(l))

\* What the speech recogniser does with an utterance: it raises, or it
\* returns the text of its segments joined with spaces.
Recognitions ==
    { [raises |-> TRUE, text |-> <<>>],
      [raises |-> FALSE, text |-> <<Space>>],
      [raises |-> FALSE, text |-> <<LetterH, Space>>] }

\* transcribe_audio: the transcript, <<>> for Python's None
transcribe_audio(audio_data, heard) ==
    IF heard.raises THEN <<>> ELSE Strip(heard.text)

\* the text field of an inbound prompt message (<<>>: absent or null)
PromptTexts == { <<>>, <<Space>>, <<Space, LetterH>> }

\* the id field of an inbound ping message
PingIds == {1, 2}

\* Inbound text payloads that are no interrupt, prompt or ping:
\* "empty": the empty string; "notjson": json.loads raises JSONDecodeError;
\* "unknown": an object with another type; "nonobject": JSON that is no
\* object, so that data.get raises AttributeError.
OtherTexts == {"empty", "notjson", "unknown", "nonobject"}

\* fragment number i of a reply, and the text the generator yields when
\* generation raises ("Error: ...")
Digits == <<"1", "2", "3", "4", "5">>
Fragment(i) == <<"f", Digits[i]>>
ErrorText == <<"E">>

(***************************************************************************)
(* State of one session.                                                   *)
(***************************************************************************)
Turns == 1 .. MaxRecv

VARIABLES
    vad,            \* the VAD oracle of processor.vad
    buffer,         \* processor.buffer
    llm_interrupt,  \* the Event llm_interrupt refers to (0: None); the Event
                    \* made for turn t is number t
    event,          \* event[e]: Event e is set
    llm_task,       \* the Task llm_task refers to (0: None); the task made
                    \* for turn t is number t
    wpc,            \* wpc[t]: where _worker of task t is
    interrupt_event,\* interrupt_event[t]: the Event passed to task t's generator
    failed,         \* failed[t]: task t's generator has yielded its error text
    full_text,      \* full_text[t]: _worker's list full_text
    hpc,            \* where websocket_handler is
    complete_audio, \* what add_audio returned for the message being handled
    vad_error,      \* add_audio logged "VAD error" for the message being handled
    transcript,     \* the turn run_llm_pipeline is starting
    turn,           \* turn-starting events so far (utterances and prompts)
    source,         \* source[t]: what started turn t: "prompt", "audio", or
                    \* "untranscribed" (an utterance with no transcript)
    out,            \* the messages sent, in order
    nrecv,          \* inbound messages received
    last            \* the inbound message received last

vars == <<vad, buffer, llm_interrupt, event, llm_task, wpc, interrupt_event,
          failed, full_text, hpc, complete_audio, vad_error,
          transcript, turn, source, out, nrecv, last>>

Msg(type, t, id, text) == [type |-> type, turn |-> t, id |-> id, text |-> text]

In(type, id) == [type |-> type, id |-> id]

Init ==
    /\ vad = VadInit
    /\ buffer = <<>>
    /\ llm_interrupt = 0
    /\ event = [e \in Turns |-> FALSE]
    /\ llm_task = 0
    /\ wpc = [t \in Turns |-> "none"]
    /\ interrupt_event = [t \in Turns |-> 0]
    /\ failed = [t \in Turns |-> FALSE]
    /\ full_text = [t \in Turns |-> <<>>]
    /\ hpc = "recv"
    /\ complete_audio = None
    /\ vad_error = FALSE
    /\ transcript = 0
    /\ turn = 0
    /\ source = [t \in Turns |-> "none"]
    /\ out = <<Msg("ready", 0, 0, <<>>)>>
    /\ nrecv = 0
    /\ last = In("none", 0)

\* llm_task and not llm_task.done()
TaskActive == llm_task # 0 /\ wpc[llm_task] # "done"

\* a task that has been created and has not finished
NonTerminal(t) == wpc[t] \notin {"none", "done"}

(***************************************************************************)
(* websocket_handler: the receive loop.                                    *)
(***************************************************************************)
\* message = await websocket.receive() returns
Receives(m, audio, error) ==
    /\ hpc = "recv"
    /\ nrecv < MaxRecv
    /\ nrecv' = nrecv + 1
    /\ last' = m
    /\ complete_audio' = audio
    /\ vad_error' = error

\* a finally clause that closes without cancelling and awaiting the task
Teardown_NoAwait ==
    /\ hpc' = "closed"
    /\ UNCHANGED event

\* the finally clause of websocket_handler, up to `await llm_task`
Teardown ==
    IF TaskActive
    THEN /\ event' = IF llm_interrupt # 0
                     THEN [event EXCEPT ![llm_interrupt] = TRUE]
                     ELSE event
         /\ hpc' = "closing"
    ELSE /\ hpc' = "closed"
         /\ UNCHANGED event

\* the test of line 297 left out
HasTranscript_Always(text) == TRUE

\* the test of line 297: the pipeline runs for this transcript
HasTranscript(text) == text # <<>>

\* a binary message: processor.add_audio, and for an utterance
\* transcribe_audio and the send of stt
RecvAudio(chunk, raises, answer, heard) ==
    LET r == add_audio(buffer, chunk, vad, raises, answer)
        text == transcribe_audio(r.result, heard)
        t == turn + 1
    IN /\ Receives(In("bytes", 0), r.result, r.error)
       /\ buffer' = r.buffer
       /\ vad' = r.vad
       /\ IF r.result = None
          THEN UNCHANGED <<hpc, transcript, turn, source, out>>
          ELSE /\ turn' = t
               /\ source' = [source EXCEPT ![t] = IF text = <<>>
                                                  THEN "untranscribed"
                                                  ELSE "audio"]
               /\ IF HasTranscript(text)
                  THEN /\ out' = Append(out, Msg("stt", t, 0, text))
                       /\ transcript' = t
                       /\ hpc' = "stt_sent"
                  ELSE UNCHANGED <<hpc, transcript, out>>
       /\ UNCHANGED <<llm_interrupt, event, llm_task, wpc, interrupt_event,
                      failed, full_text>>

\* the test of line 314 left out
Acknowledges_Always == TRUE

\* the test of line 314 as "unless an Event is set"
Acknowledges_UnlessSet == llm_interrupt = 0 \/ ~event[llm_interrupt]

\* the test of line 314: the interrupt is acknowledged
Acknowledges == llm_interrupt # 0 /\ ~event[llm_interrupt]

\* an interrupt branch that clears the buffer only after an acknowledgement
RecvInterrupt_ClearIfAcked ==
    /\ Receives(In("interrupt", 0), None, FALSE)
    /\ IF Acknowledges
       THEN /\ event' = [e \in Turns |-> event[e] \/ e = llm_interrupt]
            /\ out' = Append(out, Msg("interrupt_ack", llm_interrupt, 0, <<>>))
            /\ hpc' = "ack_sent"
       ELSE UNCHANGED <<event, out, hpc>>
    /\ UNCHANGED <<vad, buffer, llm_interrupt, llm_task, wpc, interrupt_event,
                   failed, full_text, transcript, turn, source>>

\* {"type": "interrupt"}, up to the send of interrupt_ack; the message is
\* given the number of the Event it sets
RecvInterrupt ==
    /\ Receives(In("interrupt", 0), None, FALSE)
    /\ IF Acknowledges
       THEN /\ event' = [e \in Turns |-> event[e] \/ e = llm_interrupt]
            /\ out' = Append(out, Msg("interrupt_ack", llm_interrupt, 0, <<>>))
            /\ hpc' = "ack_sent"
            /\ UNCHANGED buffer
       ELSE /\ buffer' = <<>>
            /\ UNCHANGED <<event, out, hpc>>
    /\ UNCHANGED <<vad, llm_interrupt, llm_task, wpc, interrupt_event, failed,
                   full_text, transcript, turn, source>>

\* the send of interrupt_ack returns: processor.buffer.clear()
ClearAfterAck ==
    /\ hpc = "ack_sent"
    /\ buffer' = <<>>
    /\ hpc' = "recv"
    /\ UNCHANGED <<vad, llm_interrupt, event, llm_task, wpc, interrupt_event,
                   failed, full_text, transcript, turn, source, out, nrecv, last,
                   complete_audio, vad_error>>

\* {"type": "prompt", "text": ...}, up to the send of stt
RecvPrompt(ptext) ==
    LET text == Strip(ptext)
        t == turn + 1
    IN /\ Receives(In("prompt", 0), None, FALSE)
       /\ IF text # <<>>
          THEN /\ turn' = t
               /\ source' = [source EXCEPT ![t] = "prompt"]
               /\ out' = Append(out, Msg("stt", t, 0, text))
               /\ transcript' = t
               /\ hpc' = "stt_sent"
          ELSE UNCHANGED <<turn, source, out, transcript, hpc>>
       /\ UNCHANGED <<vad, buffer, llm_interrupt, event, llm_task, wpc,
                      interrupt_event, failed, full_text>>

\* a pong that does not echo the id
Pong_NoId(id) == Msg("pong", 0, 0, <<>>)

\* the message of line 326
Pong(id) == Msg("pong", 0, id, <<>>)

\* {"type": "ping", "id": ...}
RecvPing(id) ==
    /\ Receives(In("ping", id), None, FALSE)
    /\ out' = Append(out, Pong(id))
    /\ UNCHANGED <<vad, buffer, llm_interrupt, event, llm_task, wpc,
                   interrupt_event, failed, full_text, hpc, transcript, turn,
                   source>>

\* any other text payload
RecvOther(payload) ==
    /\ Receives(In(payload, 0), None, FALSE)
    /\ IF payload = "nonobject"
       THEN Teardown
       ELSE UNCHANGED <<event, hpc>>
    /\ UNCHANGED <<vad, buffer, llm_interrupt, llm_task, wpc, interrupt_event,
                   failed, full_text, transcript, turn, source, out>>

\* a websocket.disconnect message
RecvDisconnect ==
    /\ Receives(In("disconnect", 0), None, FALSE)
    /\ Teardown
    /\ UNCHANGED <<vad, buffer, llm_interrupt, llm_task, wpc, interrupt_event,
                   failed, full_text, transcript, turn, source, out>>

\* `await llm_task` of the finally clause returns: websocket.close()
Close ==
    /\ hpc = "closing"
    /\ ~TaskActive
    /\ hpc' = "closed"
    /\ UNCHANGED <<vad, buffer, llm_interrupt, event, llm_task, wpc,
                   interrupt_event, failed, full_text, transcript, turn, source,
                   out, nrecv, last,
                   complete_audio, vad_error>>

(***************************************************************************)
(* run_llm_pipeline                                                        *)
(***************************************************************************)
\* the prior task is never awaited
MustAwait_Never == FALSE

\* the test of line 241: a prior task has to be cancelled and awaited
MustAwait == TaskActive

\* run_llm_pipeline without its send of llm_start
StartTurn_NoStart ==
    /\ llm_interrupt' = transcript
    /\ event' = [event EXCEPT ![transcript] = FALSE]
    /\ out' = out
    /\ hpc' = "start_sent"

\* llm_interrupt = asyncio.Event() and the send of llm_start
StartTurn ==
    /\ llm_interrupt' = transcript
    /\ event' = [event EXCEPT ![transcript] = FALSE]
    /\ out' = Append(out, Msg("llm_start", transcript, 0, <<>>))
    /\ hpc' = "start_sent"

\* the send of stt returns: run_llm_pipeline is called and runs to its
\* first await that suspends
run_llm_pipeline ==
    /\ hpc = "stt_sent"
    /\ IF MustAwait
       THEN /\ event' = IF llm_interrupt # 0
                        THEN [event EXCEPT ![llm_interrupt] = TRUE]
                        ELSE event
            /\ hpc' = "await_task"
            /\ UNCHANGED <<llm_interrupt, out>>
       ELSE StartTurn
    /\ UNCHANGED <<vad, buffer, llm_task, wpc, interrupt_event, failed,
                   full_text, transcript, turn, source, nrecv, last,
                   complete_audio, vad_error>>

\* run_llm_pipeline starting the turn only if it had no task to wait for:
\* after the wait it returns
AwaitReturns_NoStart ==
    /\ hpc = "await_task"
    /\ ~TaskActive
    /\ hpc' = "recv"
    /\ UNCHANGED <<vad, buffer, llm_interrupt, event, llm_task, wpc,
                   interrupt_event, failed, full_text, transcript,
                   turn, source, out, nrecv, last, complete_audio, vad_error>>

\* `await llm_task` of run_llm_pipeline returns
AwaitReturns ==
    /\ hpc = "await_task"
    /\ ~TaskActive
    /\ StartTurn
    /\ UNCHANGED <<vad, buffer, llm_task, wpc, interrupt_event, failed,
                   full_text, transcript, turn, source, nrecv, last,
                   complete_audio, vad_error>>

\* the send of llm_start returns: llm_task = asyncio.create_task(_worker())
CreateTask ==
    /\ hpc = "start_sent"
    /\ llm_task' = transcript
    /\ wpc' = [wpc EXCEPT ![transcript] = "created"]
    /\ hpc' = "recv"
    /\ UNCHANGED <<vad, buffer, llm_interrupt, event, interrupt_event, failed,
                   full_text, transcript, turn, source, out, nrecv, last,
                   complete_audio, vad_error>>

(***************************************************************************)
(* generate_llm_response and _worker                                       *)
(***************************************************************************)
\* what the streamer does when asked for its next text
Streams == {"text", "end", "raise"}

\* One __anext__ of generate_llm_response.  has_failed: the generator has
\* yielded its error text; e: its interrupt_event (0: None); n: the texts
\* yielded so far.  stop: the generator is exhausted.
generate_llm_response(has_failed, e, n, stream) ==
    IF has_failed
    THEN [stop |-> TRUE, text |-> <<>>, failed |-> TRUE]
    ELSE IF stream = "raise" \/ (stream = "text" /\ e = 0)
    THEN [stop |-> FALSE, text |-> ErrorText, failed |-> TRUE]
    ELSE IF stream = "text" /\ ~event[e]
    THEN [stop |-> FALSE, text |-> Fragment(n + 1), failed |-> FALSE]
    ELSE [stop |-> TRUE, text |-> <<>>, failed |-> FALSE]

\* the handler's finally clause has called llm_task.cancel() on task t
CancelRequested(t) == hpc = "closing" /\ llm_task = t

\* the finally clause of _worker
Finally(t) ==
    /\ wpc' = [wpc EXCEPT ![t] = "done"]
    /\ event' = IF llm_interrupt # 0
                THEN [event EXCEPT ![llm_interrupt] = TRUE]
                ELSE event
    /\ llm_interrupt' = 0

\* the test of line 258 without its test of full_text
MayFinalize_Empty(texts) == ~event[llm_interrupt]

\* the test of line 258, full_text being texts
MayFinalize(texts) == texts # <<>> /\ ~event[llm_interrupt]

\* _worker after its async for loop, up to its next send
AfterLoop(t) ==
    IF full_text[t] # <<>> /\ llm_interrupt = 0
    THEN \* None.is_set() raises: the except clause sends error
         /\ out' = Append(out, Msg("error", t, 0, <<>>))
         /\ wpc' = [wpc EXCEPT ![t] = "sent_error"]
         /\ UNCHANGED <<event, llm_interrupt>>
    ELSE IF MayFinalize(full_text[t])
    THEN /\ out' = Append(out, Msg("llm_final", t, 0, Join(full_text[t])))
         /\ wpc' = [wpc EXCEPT ![t] = "sent_final"]
         /\ UNCHANGED <<event, llm_interrupt>>
    ELSE /\ Finally(t)
         /\ UNCHANGED out

\* _worker starts, or its send of llm returns: the next text is asked of the
\* generator, and the worker runs to its next send or to its end.  What can
\* raise in the generator (lines 162 to 184) runs before its first text.
WorkerNext(t, stream) ==
    LET e == IF wpc[t] = "created" THEN llm_interrupt ELSE interrupt_event[t]
        g == generate_llm_response(failed[t], e, Len(full_text[t]), stream)
    IN /\ wpc[t] \in {"created", "sent_llm"}
       /\ ~CancelRequested(t)
       /\ stream = "end" \/ Len(full_text[t]) < MaxFrags
       /\ stream = "raise" => wpc[t] = "created"
       /\ interrupt_event' = [interrupt_event EXCEPT ![t] = e]
       /\ failed' = [failed EXCEPT ![t] = g.failed]
       /\ IF g.stop
          THEN /\ AfterLoop(t)
               /\ UNCHANGED full_text
          ELSE /\ full_text' = [full_text EXCEPT ![t] = Append(@, g.text)]
               /\ out' = Append(out, Msg("llm", t, 0, g.text))
               /\ wpc' = [wpc EXCEPT ![t] = "sent_llm"]
               /\ UNCHANGED <<event, llm_interrupt>>
       /\ UNCHANGED <<vad, buffer, llm_task, hpc, transcript, turn, source,
                      nrecv, last, complete_audio, vad_error>>

\* what the voice does when asked to synthesize: it yields audio, it yields
\* nothing, or it raises
Voices == {"audio", "nothing", "raise"}

\* synthesize_speech: whether it returns audio (it returns None otherwise) and
\* whether it logs "TTS error"
synthesize_speech(text, voice) ==
    [audio |-> voice = "audio", error |-> voice = "raise"]

\* the send of tts_audio follows synthesize_speech unconditionally
SendsAudio(t, audio) == audio

\* the send of llm_final returns: synthesize_speech, then the send of
\* tts_audio if it returned audio
WorkerSynthesize(t, voice) ==
    LET audio_data == synthesize_speech(Join(full_text[t]), voice)
    IN /\ wpc[t] = "sent_final"
       /\ ~CancelRequested(t)
       /\ IF SendsAudio(t, audio_data.audio)
          THEN /\ out' = Append(out, Msg("tts_audio", t, 0, <<>>))
               /\ wpc' = [wpc EXCEPT ![t] = "sent_tts"]
               /\ UNCHANGED <<event, llm_interrupt>>
          ELSE /\ Finally(t)
               /\ UNCHANGED out
       /\ UNCHANGED <<vad, buffer, llm_task, interrupt_event, failed, full_text,
                      hpc, transcript, turn, source, nrecv, last,
                      complete_audio, vad_error>>

\* the send of tts_audio or of error returns
WorkerEnd(t) ==
    /\ wpc[t] \in {"sent_tts", "sent_error"}
    /\ ~CancelRequested(t)
    /\ Finally(t)
    /\ UNCHANGED <<vad, buffer, llm_task, interrupt_event, failed, full_text,
                   hpc, transcript, turn, source, out, nrecv, last,
                   complete_audio, vad_error>>

\* llm_task.cancel(): a task that has not started never runs; a suspended
\* one gets CancelledError at its await and runs its finally clause
WorkerCancelled(t) ==
    /\ CancelRequested(t)
    /\ NonTerminal(t)
    /\ IF wpc[t] = "created"
       THEN /\ wpc' = [wpc EXCEPT ![t] = "done"]
            /\ UNCHANGED <<event, llm_interrupt>>
       ELSE Finally(t)
    /\ UNCHANGED <<vad, buffer, llm_task, interrupt_event, failed, full_text,
                   hpc, transcript, turn, source, out, nrecv, last,
                   complete_audio, vad_error>>

Next ==
    \/ \E c \in Chunks, raises \in BOOLEAN, answer \in {"speech", "silence"},
          heard \in Recognitions :
          RecvAudio(c, raises, answer, heard)
    \/ RecvInterrupt
    \/ ClearAfterAck
    \/ \E ptext \in PromptTexts : RecvPrompt(ptext)
    \/ \E id \in PingIds : RecvPing(id)
    \/ \E payload \in OtherTexts : RecvOther(payload)
    \/ RecvDisconnect
    \/ Close
    \/ run_llm_pipeline
    \/ AwaitReturns
    \/ CreateTask
    \/ \E t \in Turns, stream \in Streams : WorkerNext(t, stream)
    \/ \E t \in Turns, voice \in Voices : WorkerSynthesize(t, voice)
    \/ \E t \in Turns : WorkerEnd(t)
    \/ \E t \in Turns : WorkerCancelled(t)

Spec == Init /\ [][Next]_vars

\* a step of the handler other than a receive
HandlerStep ==
    ClearAfterAck \/ Close \/ run_llm_pipeline \/ AwaitReturns \/ CreateTask

\* a step of a pipeline task
WorkerStep ==
    \E t \in Turns :
       \/ \E stream \in Streams : WorkerNext(t, stream)
       \/ \E voice \in Voices : WorkerSynthesize(t, voice)
       \/ WorkerEnd(t)
       \/ WorkerCancelled(t)

\* The event loop runs every coroutine that is ready, a send on an open
\* connection returns and a collaborator call returns: the handler, unless
\* it waits for a message, and a task that has not ended take their next
\* step.  Nothing makes the client send a message.
FairSpec == Spec /\ WF_vars(HandlerStep) /\ WF_vars(WorkerStep)

(***************************************************************************)
(* Properties.                                                             *)
(***************************************************************************)
Idx == 1 .. Len(out)

\* the tasks that have been created and have not finished
NonTerminalTasks == {t \in Turns : NonTerminal(t)}

\* the message sent by this step, if it sends one
Sends(type) == Len(out') = Len(out) + 1 /\ out'[Len(out')].type = type

\* this step receives an inbound message m
Handles(m) == nrecv' = nrecv + 1 /\ last' = m

\* C1: in every reachable state at most one pipeline task is non-terminal,
\* and from the moment run_llm_pipeline has made the new turn's Event and
\* sent llm_start until it creates the new task, no task is non-terminal.
C1_AtMostOneTask ==
    /\ Cardinality(NonTerminalTasks) <= 1
    /\ hpc = "start_sent" => NonTerminalTasks = {}

\* a turn that arrived while the previous task was sending (its stt precedes
\* a fragment of the previous turn) has its own task running
C1_Witness ==
    \E t \in Turns, i, j \in Idx :
       /\ t > 1 /\ NonTerminal(t) /\ wpc[t - 1] = "done"
       /\ i < j
       /\ out[i].type = "stt" /\ out[i].turn = t
       /\ out[j].type = "llm" /\ out[j].turn = t - 1

\* C2 (as claimed): no llm, llm_final or tts_audio of a task follows the
\* interrupt_ack of an interrupt that set the task's Event.
C2_NoOutputAfterAck ==
    \A i, j \in Idx :
       (i < j /\ out[i].type = "interrupt_ack" /\ out[j].turn = out[i].turn)
          => out[j].type \notin {"llm", "llm_final", "tts_audio"}

\* C3 (as claimed): an interrupt handled while no task is non-terminal sends
\* exactly one interrupt_ack and nothing else.
C3_IdleInterruptAcked ==
    [][(Handles(In("interrupt", 0)) /\ NonTerminalTasks = {})
          => (Sends("interrupt_ack")
              /\ SubSeq(out', 1, Len(out)) = out)]_vars

\* C3 (amended): an interrupt handled while no task is non-terminal sends no
\* message at all, and clears the audio buffer.
C3_IdleInterruptSilent ==
    [][(Handles(In("interrupt", 0)) /\ NonTerminalTasks = {})
          => (out' = out /\ buffer' = <<>> /\ hpc' = "recv")]_vars

\* an interrupt has just been handled after a task ran to its end
C3_Witness ==
    /\ last = In("interrupt", 0)
    /\ NonTerminalTasks = {}
    /\ \E t \in Turns : wpc[t] = "done"
    /\ hpc = "recv"

\* C4: handling a ping with id i sends exactly the message pong with id i and
\* changes neither the task handle, the tasks, the cancellation signal nor
\* the audio buffer; and no other step sends a pong.
C4_PingPong ==
    [][/\ \A i \in PingIds :
             Handles(In("ping", i))
                => /\ out' = Append(out, Msg("pong", 0, i, <<>>))
                   /\ UNCHANGED <<llm_task, wpc, llm_interrupt, event, buffer>>
       /\ Sends("pong") => \E i \in PingIds : Handles(In("ping", i))]_vars

\* a ping has just been answered while a task is suspended in the send of a
\* fragment
C4_Witness ==
    /\ last.type = "ping"
    /\ out[Len(out)] = Msg("pong", 0, last.id, <<>>)
    /\ \E t \in Turns : wpc[t] = "sent_llm"

\* C5: an utterance returned by add_audio is the buffer after appending, it
\* holds at least one second of audio, its leading frame is classified
\* non-speech by the oracle, and the buffer is empty after the call.
C5_UtteranceOnlyAfterSilence ==
    complete_audio # None
       => /\ BufLen(complete_audio) >= sample_rate * 2
          /\ vad[LeadingFrame(complete_audio)] = "silence"
          /\ buffer = <<>>

\* an utterance has been returned whose leading frame is mixed
C5_Witness ==
    /\ complete_audio # None
    /\ LeadingFrame(complete_audio) \in {<<"v", "q">>, <<"q", "v">>}

\* the messages of turn t, in the order sent, and the types of messages
TurnMsgs(t) ==
    SelectSeq(out, LAMBDA m : m.turn = t /\ m.type # "interrupt_ack")

Types(msgs) == [i \in 1 .. Len(msgs) |-> msgs[i].type]

\* a buffer of voiced bytes of a second or more followed by a frame or more
\* of quiet bytes
SpeechThenSilence(b) ==
    /\ Len(b) = 2
    /\ b[1].k = "v" /\ b[1].n >= sample_rate * 2
    /\ b[2].k = "q" /\ b[2].n >= frame_size * 2

Uninterrupted(t) ==
    /\ turn = t
    /\ hpc \notin {"closing", "closed"}
    /\ \A i \in Idx : ~(out[i].type = "interrupt_ack" /\ out[i].turn = t)

\* what a whole turn sends before tts_audio, given its fragments
Expected(texts) ==
    <<"stt", "llm_start">> \o [i \in 1 .. Len(texts) |-> "llm"]
       \o (IF texts # <<>> THEN <<"llm_final">> ELSE <<>>)

C7_NoTranscriptNoOutput ==
    \A t \in Turns :
       source[t] = "untranscribed"
          => /\ \A i \in Idx : out[i].turn # t
             /\ wpc[t] = "none"
             /\ (t = turn /\ complete_audio # None) => hpc = "recv"

\* an utterance has just gone untranscribed while a task is running
C7_Witness ==
    /\ turn > 0 /\ source[turn] = "untranscribed"
    /\ complete_audio # None
    /\ NonTerminalTasks # {}

TurnTypes == {"stt", "llm_start", "llm", "llm_final", "tts_audio"}

Rank(type) ==
    CASE type = "stt" -> 1
      [] type = "llm_start" -> 2
      [] type = "llm" -> 3
      [] type = "llm_final" -> 4
      [] type = "tts_audio" -> 5

\* message number j is preceded by a message of this type of the same turn
Preceded(j, type) ==
    \E i \in 1 .. (j - 1) : out[i].type = type /\ out[i].turn = out[j].turn

\* C8: the messages of one turn are sent in the order stt, llm_start, llm*,
\* llm_final, tts_audio, each but llm at most once; an llm_start follows its
\* turn's stt, an llm its llm_start, and a tts_audio its llm_final.
C8_TurnOrder ==
    /\ \A i, j \in Idx :
          (/\ i < j /\ out[i].turn = out[j].turn
           /\ out[i].type \in TurnTypes /\ out[j].type \in TurnTypes)
             => /\ Rank(out[i].type) <= Rank(out[j].type)
                /\ out[i].type = out[j].type => out[i].type = "llm"
    /\ \A j \in Idx :
          /\ out[j].type = "llm_start" => Preceded(j, "stt")
          /\ out[j].type = "llm" => Preceded(j, "llm_start")
          /\ out[j].type = "tts_audio" => Preceded(j, "llm_final")

\* a turn has sent all five kinds of message, with two fragments
C8_Witness ==
    \E t \in Turns :
       Types(TurnMsgs(t)) =
          <<"stt", "llm_start", "llm", "llm", "llm_final", "tts_audio">>

\* C9 (as claimed): once a message of a turn (its stt or llm_start) has been
\* sent, no llm, llm_final, tts_audio or error of an earlier turn is sent.
C9_NoInterleaving ==
    \A i, j \in Idx :
       (/\ i < j
        /\ out[i].type \in {"stt", "llm_start"}
        /\ out[j].turn # 0 /\ out[j].turn < out[i].turn)
          => out[j].type \notin {"llm", "llm_final", "tts_audio", "error"}

\* C10 (as claimed): when interrupt_ack is sent no task is non-terminal.
C10_AckWhenIdle ==
    [][Sends("interrupt_ack")
          => \A t \in Turns : wpc'[t] \in {"none", "done"}]_vars

\* C11 (as claimed): a turn in which generation has raised, run to its end
\* without being cancelled, has sent an error message of that turn, and none
\* of its llm or llm_final messages carries the text of the failure; and the
\* step of a task in which synthesis raises sends an error message of that
\* turn.
C11_CollaboratorErrorReported ==
    [][\A t \in Turns :
          /\ (failed'[t] /\ wpc'[t] = "done" /\ Uninterrupted(t)')
                => /\ \E i \in 1 .. Len(out') :
                         out'[i].type = "error" /\ out'[i].turn = t
                   /\ \A i \in 1 .. Len(out') :
                         (out'[i].turn = t
                          /\ out'[i].type \in {"llm", "llm_final"})
                            => out'[i].text # ErrorText
          /\ WorkerSynthesize(t, "raise")
                => (Sends("error") /\ out'[Len(out')].turn = t)]_vars

\* C12: when the receive loop ends (a disconnect message, or an exception
\* raised in the loop) while a task is non-terminal, the task's Event is set
\* and the task is cancelled and awaited; whenever the handler has got to
\* websocket.close() no task is non-terminal; and from the moment the loop
\* has ended no message is sent.
C12_TerminalBeforeClose ==
    [][/\ ((Handles(In("disconnect", 0)) \/ Handles(In("nonobject", 0)))
           /\ NonTerminalTasks # {})
             => /\ hpc' = "closing"
                /\ \A t \in NonTerminalTasks : llm_task' = t /\ event'[t]
       /\ hpc' = "closed" => NonTerminalTasks' = {}
       /\ hpc \in {"closing", "closed"} => out' = out]_vars

\* the connection has been closed after a disconnect that found a task
\* suspended in the send of a fragment: the task ended without its llm_final
C12_Witness ==
    /\ hpc = "closed"
    /\ last = In("disconnect", 0)
    /\ \E t \in Turns :
          /\ wpc[t] = "done" /\ event[t] /\ full_text[t] # <<>>
          /\ \A i \in Idx : ~(out[i].type = "llm_final" /\ out[i].turn = t)

\* C13 (as claimed): handling a text payload that is no well-formed control
\* message (the empty text, text that is not JSON, JSON that is no object,
\* an object of an unrecognized type) sends no message, changes neither the
\* task handle, the tasks, the cancellation signal nor the audio buffer, and
\* leaves the handler receiving.
C13_MalformedDropped ==
    [][\A payload \in OtherTexts :
          Handles(In(payload, 0))
             => /\ UNCHANGED <<out, llm_task, wpc, llm_interrupt, event, buffer>>
                /\ hpc' = "recv"]_vars

\* C14 (as claimed): once the Event of a task has been set, no llm_final and
\* no tts_audio of that task is sent.
C14_NoFinalAfterSignal ==
    [][\A t \in Turns :
          (event[t] /\ Len(out') = Len(out) + 1 /\ out'[Len(out')].turn = t)
             => out'[Len(out')].type \notin {"llm_final", "tts_audio"}]_vars

\* C15 (as claimed): a task that has run to its end without its Event being
\* set has sent exactly one llm_final, carrying the concatenation of its
\* fragments in order, whatever the number of fragments.
C15_AlwaysFinalizes ==
    \A t \in Turns :
       (wpc[t] = "done" /\ Uninterrupted(t))
          => SelectSeq(out, LAMBDA m : m.type = "llm_final" /\ m.turn = t)
                = <<Msg("llm_final", t, 0, Join(full_text[t]))>>

\* C16 (as claimed): a call of add_audio in which the oracle does not fail
\* returns the whole buffer whenever, after appending, the leading frame is
\* classified non-speech and the buffer holds at least one second of audio
\* (sample_rate * 2 bytes), a buffer of exactly that length included.
C16_ThresholdInclusive ==
    [][\A c \in Chunks :
          (/\ Handles(In("bytes", 0))
           /\ ~vad_error'
           /\ Extend(buffer, c) \in {buffer', complete_audio'}
           /\ BufLen(Extend(buffer, c)) >= sample_rate * 2
           /\ vad'[LeadingFrame(Extend(buffer, c))] = "silence")
             => (complete_audio' = Extend(buffer, c) /\ buffer' = <<>>)]_vars

\* C17: while run_llm_pipeline waits for the prior task, that task's Event is
\* set; and the wait leads to a state in which every earlier task is
\* terminal, the llm_start of the turn being started has been sent and that
\* turn's task has been created.
C17_HandoffTerminates ==
    /\ [](hpc = "await_task" => (llm_task # 0 /\ event[llm_task]))
    /\ (hpc = "await_task")
          ~> (/\ transcript # 0
              /\ llm_task = transcript /\ wpc[transcript] = "created"
              /\ \A s \in Turns \ {transcript} : ~NonTerminal(s)
              /\ \E i \in Idx : out[i] = Msg("llm_start", transcript, 0, <<>>))

\* a turn's task has been created after the turn superseded a task that was
\* in the middle of its fragments: that task ended without llm_final, and no
\* interrupt was acknowledged for it
C17_Witness ==
    \E t \in Turns :
       /\ t > 1 /\ llm_task = t /\ wpc[t] = "created"
       /\ wpc[t - 1] = "done" /\ full_text[t - 1] # <<>>
       /\ \A i \in Idx :
             out[i].turn = t - 1
                => out[i].type \notin {"llm_final", "interrupt_ack", "error"}

\* the buffer holds a whole leading frame
HasFrame(b) == BufLen(b) >= frame_size * 2

\* this step empties the buffer because an interrupt message is handled
InterruptClears ==
    /\ buffer' = <<>>
    /\ Handles(In("interrupt", 0)) \/ (hpc = "ack_sent" /\ hpc' = "recv")

\* C18: the oracle never changes what it has said of a frame.  While the
\* leading frame of the buffer is classified speech, a binary message makes
\* add_audio return no utterance and leaves the buffer extended by its
\* chunk, and a step that changes the buffer extends it by a chunk or is an
\* interrupt clearing it.  In every state with a leading frame, a step after
\* which the buffer has another leading frame, or none, is an utterance
\* emission or an interrupt clearing the buffer.
C18_LeadingSpeechHolds ==
    [][/\ \A f \in Frames : vad[f] # "unasked" => vad'[f] = vad[f]
       /\ (HasFrame(buffer) /\ vad[LeadingFrame(buffer)] = "speech")
             => /\ Handles(In("bytes", 0))
                      => /\ complete_audio' = None
                         /\ \E c \in Chunks : buffer' = Extend(buffer, c)
                /\ buffer' # buffer
                      => \/ \E c \in Chunks : buffer' = Extend(buffer, c)
                         \/ InterruptClears
       /\ (/\ HasFrame(buffer)
           /\ HasFrame(buffer') => LeadingFrame(buffer') # LeadingFrame(buffer))
             => \/ (/\ Handles(In("bytes", 0))
                    /\ complete_audio' # None /\ buffer' = <<>>)
                \/ InterruptClears]_vars

\* add_audio has just returned no utterance, without an oracle failure, for
\* a buffer of more than one second that has a leading frame classified
\* speech and ends with a quiet frame
C18_Witness ==
    /\ last = In("bytes", 0) /\ ~vad_error /\ complete_audio = None
    /\ BufLen(buffer) > sample_rate * 2
    /\ vad[LeadingFrame(buffer)] = "speech"
    /\ buffer[Len(buffer)].k = "q" /\ buffer[Len(buffer)].n >= frame_size * 2

\* this step is the return of the send of interrupt_ack
AckReturns == hpc = "ack_sent" /\ hpc' = "recv"

\* C19: the buffer, empty at first, is changed by the receive path only.  A
\* binary message appends its chunk, and either the buffer is kept or the
\* whole of it is returned as the utterance and the buffer emptied; the
\* handling of an interrupt message empties the buffer, at once when nothing
\* is acknowledged and otherwise when the send of interrupt_ack returns,
\* before the next message is received; no other step, and no step of a
\* task, changes the buffer; and an utterance is returned only for a binary
\* message.
C19_BufferIsChunksSince ==
    [][/\ Handles(In("bytes", 0))
             => \E c \in Chunks :
                   \/ complete_audio' = None /\ buffer' = Extend(buffer, c)
                   \/ complete_audio' = Extend(buffer, c) /\ buffer' = <<>>
       /\ Handles(In("interrupt", 0))
             => \/ buffer' = <<>> /\ hpc' = "recv"
                \/ buffer' = buffer /\ hpc' = "ack_sent"
       /\ AckReturns => buffer' = <<>>
       /\ (hpc' = "recv" /\ last' = In("interrupt", 0)) => buffer' = <<>>
       /\ ~(Handles(In("bytes", 0)) \/ Handles(In("interrupt", 0)) \/ AckReturns)
             => (buffer' = buffer /\ complete_audio' \in {None, complete_audio})
       /\ ~Handles(In("bytes", 0)) => complete_audio' \in {None, complete_audio}]_vars

\* an utterance made of two chunks, half a frame and then one second and
\* half a frame of the other kind, has just been returned
C19_Witness ==
    /\ last = In("bytes", 0)
    /\ complete_audio # None /\ Len(complete_audio) = 2 /\ buffer = <<>>
    /\ complete_audio[1].n = frame_size
    /\ BufLen(complete_audio) = sample_rate * 2 + frame_size * 2

====
